---- MODULE Spec2Model ----
(***************************************************************************)
(* A model of tools/ffmpeg.py, the FFVVC conformance test runner.          *)
(*                                                                         *)
(* Strings (paths, manifest lines, checksums, messages) are sequences of   *)
(* one-character strings, so that endswith, split, replace, strip,         *)
(* splitext and lower are computed the way the Python code computes them.  *)
(* The file system, the manifests and the decoder's behaviour on each      *)
(* input are the environment: they are chosen in Init and never change.    *)
(***************************************************************************)
EXTENDS Integers, Sequences, FiniteSets, TLC

VARIABLES
    args,       \* the parsed command line: threads, ffmpeg_path, test_path
    walk,       \* what os.walk yields under the root, flattened: <<[root, f], ...>>
    manifest,   \* directory -> contents of its md5.txt (or that it is missing / unreadable)
    decoder,    \* input path -> what the decoder process does on that input
    pc,         \* position of the main thread
    walkPos,    \* submmit_files: index of the next entry of the walk
    futures,    \* the submitted futures, in submission order
    queue,      \* the executor's work queue (indices into futures)
    worker,     \* pool thread -> the future it is running, 0 when idle
    yielded,    \* futures as_completed has handed to the collection loop
    count,      \* the global count[]
    summary,    \* the global summary[]
    printed,    \* the totals print_summary has printed, <<>> before
    pss,        \* test_file: the value test() returned, <<>> before
    invoked,    \* per entry of the walk: how many times get_md5 started the decoder on it
    exitcode    \* the exit status of the process, <<>> while it runs

vars == <<args, walk, manifest, decoder, pc, walkPos, futures, queue, worker,
          yielded, count, summary, printed, pss, invoked, exitcode>>

env == <<args, walk, manifest, decoder>>

----------------------------------------------------------------------------
(* Bounds of the model.                                                    *)

MaxFiles == 3
MaxThreads == 2
MaxBulk == 257

----------------------------------------------------------------------------
(* Program constants.                                                      *)

PASSED == 0
FAILED == 1
SKIPPED == 2

\* sys.exit(n): the status the parent sees is n modulo 256.
ExitRange == 256

Outcomes == {PASSED, FAILED, SKIPPED}

----------------------------------------------------------------------------
(* Strings.                                                                *)

IsSpace(c) == c \in {" ", "\n", "\t"}

SetMin(S) == CHOOSE x \in S : \A y \in S : x <= y
SetMax(S) == CHOOSE x \in S : \A y \in S : y <= x

\* str.endswith
EndsWith(s, suf) ==
    /\ Len(suf) <= Len(s)
    /\ SubSeq(s, Len(s) - Len(suf) + 1, Len(s)) = suf

\* str.split(): the whitespace-delimited tokens, in order
RECURSIVE Split(_)
Split(s) ==
    LET ns == {i \in 1..Len(s) : ~IsSpace(s[i])}
    IN  IF ns = {} THEN <<>>
        ELSE LET b == SetMin(ns)
                 sp == {j \in b..Len(s) : IsSpace(s[j])}
                 e == IF sp = {} THEN Len(s) ELSE SetMin(sp) - 1
             IN  <<SubSeq(s, b, e)>> \o Split(SubSeq(s, e + 1, Len(s)))

\* str.strip()
Strip(s) ==
    LET ns == {i \in 1..Len(s) : ~IsSpace(s[i])}
    IN  IF ns = {} THEN <<>> ELSE SubSeq(s, SetMin(ns), SetMax(ns))

\* str.replace(pat, ""), pat not empty
RECURSIVE RemoveAll(_, _)
RemoveAll(s, pat) ==
    IF Len(s) < Len(pat) THEN s
    ELSE IF SubSeq(s, 1, Len(pat)) = pat
         THEN RemoveAll(SubSeq(s, Len(pat) + 1, Len(s)), pat)
         ELSE <<Head(s)>> \o RemoveAll(Tail(s), pat)

UpperAlpha == <<"A","B","C","D","E","F","G","H","I","J","K","L","M",
                "N","O","P","Q","R","S","T","U","V","W","X","Y","Z">>
LowerAlpha == <<"a","b","c","d","e","f","g","h","i","j","k","l","m",
                "n","o","p","q","r","s","t","u","v","w","x","y","z">>

\* str.lower()
Lower(s) ==
    [i \in 1..Len(s) |->
        IF \E k \in 1..Len(UpperAlpha) : UpperAlpha[k] = s[i]
        THEN LowerAlpha[CHOOSE k \in 1..Len(UpperAlpha) : UpperAlpha[k] = s[i]]
        ELSE s[i]]

\* the index of the last c in s, 0 when there is none (str.rfind, 1-based)
RFind(s, c) ==
    LET at == {i \in 1..Len(s) : s[i] = c}
    IN  IF at = {} THEN 0 ELSE SetMax(at)

\* os.path.join(root, f), f relative
join(root, f) == root \o <<"/">> \o f

\* os.path.dirname / os.path.basename
dirname(p) == SubSeq(p, 1, RFind(p, "/") - 1)
basename(p) == SubSeq(p, RFind(p, "/") + 1, Len(p))

\* os.path.splitext(p)[1]: from the last dot of the last component, unless
\* that component has only dots before it
splitext_ext(p) ==
    LET sep == RFind(p, "/")
        dot == RFind(p, ".")
    IN  IF dot > sep /\ \E k \in (sep + 1)..(dot - 1) : p[k] # "."
        THEN SubSeq(p, dot, Len(p))
        ELSE <<>>

----------------------------------------------------------------------------
(* Values a Python call can produce here: None, a string, or an exception. *)

None == [tag |-> "None"]
Str(s) == [tag |-> "str", val |-> s]
Raised == [tag |-> "raise"]

----------------------------------------------------------------------------
(* The environment.                                                        *)

Root == <<"d">>
Sub == <<"d", "/", "s">>
Dirs == {Root, Sub}

\* The tree under the root in the order os.walk lists it.
Tree ==
    << [root |-> Root, f |-> <<"c", ".", "b", "i", "n">>],
       [root |-> Root, f |-> <<"n", ".", "t", "x", "t">>],
       [root |-> Sub,  f |-> <<"c", ".", "b", "i", "n">>],
       [root |-> Sub,  f |-> <<"K", ".", "V", "V", "C">>],
       [root |-> Sub,  f |-> <<"e", ".", "2", "6", "6">>],
       [root |-> Sub,  f |-> <<"g", ".", "b", "i", "t">>] >>

Min2(a, b) == IF a < b THEN a ELSE b

\* md5.txt of a directory: missing, present but unreadable, or its lines
NoFile == [tag |-> "missing"]
Unreadable == [tag |-> "unreadable"]
Lines(ls) == [tag |-> "lines", lines |-> ls]

LineA == <<"a", "1", " ", " ", "c", ".", "b", "i", "n", "\n">>
LineXc == <<"b", "2", " ", " ", "x", "c", ".", "b", "i", "n", "\n">>
LineE == <<"E", " ", " ", "c", ".", "b", "i", "n", "\n">>
LineK == <<"b", "2", " ", " ", "K", ".", "V", "V", "C", "\n">>
LineNoNl == <<"a", "1", " ", " ", "c", ".", "b", "i", "n">>

ManifestContents ==
    { NoFile,
      Unreadable,
      Lines(<<LineXc, LineA, LineK>>),
      Lines(<<LineE>>),
      Lines(<<LineXc, LineNoNl>>) }

\* What the decoder process does on one input: it exits with a status and
\* has written stdout, or subprocess.run raises (the executable cannot be
\* launched, the timeout expires) and the exception carries a message.
Exits(rc, out) == [kind |-> "exit", rc |-> rc, stdout |-> out]
Raises(msg) == [kind |-> "raise", msg |-> msg]

OutA == <<"M", "D", "5", "=", "a", "1", "\n">>
OutB == <<"M", "D", "5", "=", "b", "2", "\n">>
MsgTimeout == <<"t", "i", "m", "e", "d", " ", "o", "u", "t">>
MsgOneWord == <<"E">>

DecoderBehaviours ==
    { Exits(0, OutA), Exits(0, OutB), Exits(1, OutA),
      Raises(MsgTimeout), Raises(MsgOneWord) }

FfmpegPath == <<"f", "f">>

----------------------------------------------------------------------------
(* The functions of the program.                                           *)

\* A faulty get_ref_md5: StopIteration is not caught, so a manifest without a
\* matching line makes the lookup raise.
get_ref_md5_StopIterationEscapes(fn) ==
    LET m == manifest[dirname(fn)]
        name == basename(fn)
        suffix == <<" ", " ">> \o name \o <<"\n">>
    IN  IF m.tag = "missing" THEN None
        ELSE IF m.tag = "unreadable" THEN Raised
        ELSE LET checksums == SelectSeq(m.lines, LAMBDA l : EndsWith(l, suffix))
             IN  IF checksums = <<>> THEN Raised
                 ELSE IF Split(checksums[1]) = <<>> THEN Raised
                 ELSE Str(Split(checksums[1])[1])

\* get_ref_md5(fn): the first token of the first line of the directory's
\* md5.txt that ends with "  <basename>\n". FileNotFoundError and
\* StopIteration give None; any other exception leaves the function.
get_ref_md5(fn) ==
    LET m == manifest[dirname(fn)]
        name == basename(fn)
        suffix == <<" ", " ">> \o name \o <<"\n">>
    IN  IF m.tag = "missing" THEN None
        ELSE IF m.tag = "unreadable" THEN Raised
        ELSE LET checksums == SelectSeq(m.lines, LAMBDA l : EndsWith(l, suffix))
             IN  IF checksums = <<>> THEN None
                 ELSE IF Split(checksums[1]) = <<>> THEN Raised
                 ELSE Str(Split(checksums[1])[1])

\* A faulty get_md5 that does not look at the exit status of the decoder.
get_md5_IgnoresStatus(input) ==
    LET o == decoder[input]
    IN  IF o.kind = "raise" THEN o.msg
        ELSE Strip(RemoveAll(o.stdout, <<"M", "D", "5", "=">>))

\* get_md5(input, ffmpeg_path): always a string. A non-zero status gives "",
\* an exception gives its message, otherwise stdout without "MD5=", stripped.
get_md5(input) ==
    LET o == decoder[input]
    IN  IF o.kind = "raise" THEN o.msg
        ELSE IF o.rc # 0 THEN <<>>
        ELSE Strip(RemoveAll(o.stdout, <<"M", "D", "5", "=">>))

\* get_md5: cmd = ffmpeg_path + " -i " + input + " -vsync 0 -f md5 -"
Cmd(ffmpeg_path, input) ==
    ffmpeg_path \o <<" ", "-", "i", " ">> \o input
        \o <<" ", "-", "v", "s", "y", "n", "c", " ", "0",
             " ", "-", "f", " ", "m", "d", "5", " ", "-">>

\* subprocess.run(cmd.split(), ...): the argument vector of the process
Argv(ffmpeg_path, input) == Split(Cmd(ffmpeg_path, input))

\* test(): `if not refmd5`
NoRef(r) == r.tag = "None" \/ (r.tag = "str" /\ r.val = <<>>)

\* test(): the comparison of the reference with the decoder's string
Classify(refmd5, md5) == IF refmd5 = md5 THEN PASSED ELSE FAILED

Ret(v) == [tag |-> "ret", val |-> v]

\* test() goes on to get_md5: the lookup returned a reference
Launches(fn) == get_ref_md5(fn).tag = "str" /\ ~NoRef(get_ref_md5(fn))

\* the entry of the walk that is the file fn
WalkIndex(fn) ==
    CHOOSE k \in 1..Len(walk) : join(walk[k].root, walk[k].f) = fn

\* get_md5 calls subprocess.run on the input
Launch(inv, input) == [inv EXCEPT ![WalkIndex(input)] = @ + 1]

\* test(f, args) run from its first line to its return
test(fn) ==
    LET refmd5 == get_ref_md5(fn)
    IN  IF refmd5.tag = "raise" THEN Raised
        ELSE IF NoRef(refmd5) THEN Ret(SKIPPED)
        ELSE Ret(Classify(refmd5.val, get_md5(fn)))

supported ==
    { <<".", "b", "i", "n">>, <<".", "b", "i", "t">>,
      <<".", "v", "v", "c">>, <<".", "2", "6", "6">> }

\* A faulty classifier that compares the extension as it is written.
is_candidiate_CaseSensitive(f) == splitext_ext(f) \in supported

is_candidiate(f) == Lower(splitext_ext(f)) \in supported

\* os.path.isfile(path): the regular files are those of the tree
isfile(p) == \E i \in 1..Len(walk) : join(walk[i].root, walk[i].f) = p

\* A faulty exit status: 1 for any failure instead of the failure count.
ExitStatusFlag(n) == IF n = 0 THEN 0 ELSE 1

\* the status of the process after sys.exit(n)
ExitStatus(n) == n % ExitRange

\* A faulty count[s] += 1 that leaves the skipped files out.
CountAddNoSkip(c, s) == IF s = SKIPPED THEN c ELSE [c EXCEPT ![s] = @ + 1]

\* count[s] += 1
CountAdd(c, s) == [c EXCEPT ![s] = @ + 1]

\* A faulty summary[s].append(f) that lists the failed files only.
SummaryAddFailedOnly(sm, s, f) ==
    IF s = FAILED THEN [sm EXCEPT ![s] = Append(@, f)] ELSE sm

\* summary[s].append(f)
SummaryAdd(sm, s, f) == [sm EXCEPT ![s] = Append(@, f)]

\* A faulty test_file that hands the outcome to the exit status.
FileModeExitOutcome(p) == p

\* test_file returns 0 whatever test() returned, and the script ends
FileModeExit(p) == 0

Sum(c) == c[PASSED] + c[FAILED] + c[SKIPPED]

----------------------------------------------------------------------------
(* The state after the module is loaded and the arguments are parsed.      *)

Paths(w) == {join(w[i].root, w[i].f) : i \in 1..Len(w)}

InitProgram ==
    /\ pc = "main"
    /\ walkPos = 1
    /\ futures = <<>>
    /\ queue = <<>>
    /\ worker = [w \in 1..args.threads |-> 0]
    /\ yielded = {}
    /\ count = [s \in Outcomes |-> 0]
    /\ summary = [s \in Outcomes |-> <<>>]
    /\ printed = <<>>
    /\ pss = <<>>
    /\ invoked \in [1..Len(walk) -> {0}]
    /\ exitcode = <<>>

Init ==
    /\ \E n \in 0..Min2(MaxFiles, Len(Tree)) : walk = SubSeq(Tree, 1, n)
    /\ manifest \in [Dirs -> ManifestContents]
    /\ \E t \in 1..MaxThreads, fp \in {None, Str(FfmpegPath)},
          tp \in {Root} \cup Paths(walk) :
            args = [threads |-> t, ffmpeg_path |-> fp, test_path |-> tp]
    /\ \E D \in SUBSET Paths(walk) :
          /\ D = IF args.ffmpeg_path = None THEN {}
                 ELSE IF args.test_path = Root
                      THEN {p \in Paths(walk) : is_candidiate(p)}
                      ELSE {args.test_path}
          /\ decoder \in [D -> DecoderBehaviours]
    /\ InitProgram

----------------------------------------------------------------------------
(* The main thread.                                                        *)

\* A faulty entry point that does not look at the decoder path before it
\* starts the work.
MainNoPathCheck ==
    /\ pc = "main"
    /\ IF isfile(args.test_path) THEN pc' = "test_file" ELSE pc' = "submit"
    /\ UNCHANGED <<env, invoked, walkPos, futures, queue, worker, yielded,
                   count, summary, printed, pss, exitcode>>

\* __main__: no decoder path is an error; a file is tested alone, anything
\* else is walked as a directory
Main ==
    /\ pc = "main"
    /\ IF args.ffmpeg_path = None
       THEN pc' = "exited" /\ exitcode' = <<1>>
       ELSE IF isfile(args.test_path)
            THEN pc' = "test_file" /\ exitcode' = exitcode
            ELSE pc' = "submit" /\ exitcode' = exitcode
    /\ UNCHANGED <<env, invoked, walkPos, futures, queue, worker, yielded, count,
                   summary, printed, pss>>

\* test_file(path, args), then the end of the script. An exception leaving
\* test() is not caught: the interpreter ends with status 1.
TestFile ==
    /\ pc = "test_file"
    /\ LET r == test(args.test_path)
       IN  IF r.tag = "raise"
           THEN pss' = pss /\ exitcode' = <<1>>
           ELSE pss' = <<r.val>> /\ exitcode' = <<FileModeExit(r.val)>>
    /\ invoked' = IF Launches(args.test_path)
                  THEN Launch(invoked, args.test_path)
                  ELSE invoked
    /\ pc' = "exited"
    /\ UNCHANGED <<env, walkPos, futures, queue, worker, yielded, count,
                   summary, printed>>

NewFuture(fn, f) ==
    [fn |-> fn, f |-> f, state |-> "queued", refmd5 |-> <<>>,
     raised |-> FALSE, result |-> <<>>]

\* submmit_files: one file of the walk; a candidate is submitted
Submit ==
    /\ pc = "submit"
    /\ walkPos <= Len(walk)
    /\ LET fn == join(walk[walkPos].root, walk[walkPos].f)
       IN  IF is_candidiate(fn)
           THEN /\ futures' = Append(futures, NewFuture(fn, walk[walkPos].f))
                /\ queue' = Append(queue, Len(futures) + 1)
           ELSE UNCHANGED <<futures, queue>>
    /\ walkPos' = walkPos + 1
    /\ UNCHANGED <<env, invoked, pc, worker, yielded, count, summary, printed, pss,
                   exitcode>>

\* submmit_files returns; test_dir starts as_completed
SubmitReturn ==
    /\ pc = "submit"
    /\ walkPos > Len(walk)
    /\ pc' = "collect"
    /\ UNCHANGED <<env, invoked, walkPos, futures, queue, worker, yielded, count,
                   summary, printed, pss, exitcode>>

\* A faulty collection loop without the try/except: the task's exception
\* leaves future.result() and ends the process before the report.
CollectUncaught(i) ==
    /\ pc = "collect"
    /\ i \in 1..Len(futures)
    /\ i \notin yielded
    /\ futures[i].state = "finished"
    /\ yielded' = yielded \cup {i}
    /\ IF futures[i].raised
       THEN pc' = "exited" /\ exitcode' = <<1>> /\ UNCHANGED <<count, summary>>
       ELSE /\ count' = [count EXCEPT ![futures[i].result[1]] = @ + 1]
            /\ summary' = [summary EXCEPT ![futures[i].result[1]] =
                                             Append(@, futures[i].f)]
            /\ UNCHANGED <<pc, exitcode>>
    /\ UNCHANGED <<env, invoked, walkPos, futures, queue, worker, printed, pss>>

\* one turn of the as_completed loop: a finished future not yet yielded.
\* An exception of the task is printed; a result is counted.
Collect(i) ==
    /\ pc = "collect"
    /\ i \in 1..Len(futures)
    /\ i \notin yielded
    /\ futures[i].state = "finished"
    /\ yielded' = yielded \cup {i}
    /\ IF futures[i].raised
       THEN UNCHANGED <<count, summary>>
       ELSE /\ count' = CountAdd(count, futures[i].result[1])
            /\ summary' = SummaryAdd(summary, futures[i].result[1], futures[i].f)
    /\ UNCHANGED <<env, invoked, pc, walkPos, futures, queue, worker, printed, pss,
                   exitcode>>

\* A faulty collection loop that is left while futures are outstanding.
CollectReturnEarly ==
    /\ pc = "collect"
    /\ pc' = "report"
    /\ UNCHANGED <<env, invoked, walkPos, futures, queue, worker, yielded,
                   count, summary, printed, pss, exitcode>>

\* as_completed is exhausted and the with block is left
CollectReturn ==
    /\ pc = "collect"
    /\ yielded = 1..Len(futures)
    /\ pc' = "report"
    /\ UNCHANGED <<env, invoked, walkPos, futures, queue, worker, yielded, count,
                   summary, printed, pss, exitcode>>

\* print_summary()
PrintSummary ==
    /\ pc = "report"
    /\ printed' = <<Sum(count), count[PASSED], count[FAILED], count[SKIPPED]>>
    /\ pc' = "exit"
    /\ UNCHANGED <<env, invoked, walkPos, futures, queue, worker, yielded, count,
                   summary, pss, exitcode>>

\* sys.exit(count[FAILED])
Exit ==
    /\ pc = "exit"
    /\ exitcode' = <<ExitStatus(count[FAILED])>>
    /\ pc' = "exited"
    /\ UNCHANGED <<env, invoked, walkPos, futures, queue, worker, yielded, count,
                   summary, printed, pss>>

----------------------------------------------------------------------------
(* The pool threads of ThreadPoolExecutor(max_workers=args.threads).       *)

\* A faulty pool that hands work to a thread that is still running a task.
IdleAlways(w) == TRUE

Idle(w) == worker[w] = 0

\* A faulty pool that starts a work item only when no thread is running one.
WorkerTakeWhenAllIdle(w) ==
    /\ \A v \in 1..args.threads : Idle(v)
    /\ w = 1
    /\ queue # <<>>
    /\ worker' = [worker EXCEPT ![w] = Head(queue)]
    /\ queue' = Tail(queue)
    /\ futures' = [futures EXCEPT ![Head(queue)].state = "lookup"]
    /\ UNCHANGED <<env, invoked, pc, walkPos, yielded, count, summary, printed,
                   pss, exitcode>>

\* An idle pool thread takes the oldest work item. The pool's threads are
\* interchangeable: the idle thread with the lowest number stands for
\* whichever idle thread the queue wakes.
WorkerTake(w) ==
    /\ Idle(w)
    /\ \A v \in 1..(w - 1) : ~Idle(v)
    /\ queue # <<>>
    /\ worker' = [worker EXCEPT ![w] = Head(queue)]
    /\ queue' = Tail(queue)
    /\ futures' = [futures EXCEPT ![Head(queue)].state = "lookup"]
    /\ UNCHANGED <<env, invoked, pc, walkPos, yielded, count, summary, printed, pss,
                   exitcode>>

Finish(i, w, raised, result) ==
    /\ futures' = [futures EXCEPT ![i].state = "finished",
                                  ![i].raised = raised,
                                  ![i].result = result]
    /\ worker' = [worker EXCEPT ![w] = 0]

\* A faulty test() that starts the decoder before it looks at what the
\* lookup returned.
TaskLookupLaunchesAnyway(w) ==
    /\ worker[w] # 0
    /\ futures[worker[w]].state = "lookup"
    /\ LET i == worker[w]
           refmd5 == get_ref_md5(futures[i].fn)
       IN  IF refmd5.tag = "raise"
           THEN Finish(i, w, TRUE, <<>>) /\ invoked' = invoked
           ELSE IF NoRef(refmd5)
           THEN /\ Finish(i, w, FALSE, <<SKIPPED>>)
                /\ invoked' = Launch(invoked, futures[i].fn)
           ELSE /\ futures' = [futures EXCEPT ![i].state = "invoke",
                                              ![i].refmd5 = refmd5.val]
                /\ worker' = worker
                /\ invoked' = Launch(invoked, futures[i].fn)
    /\ UNCHANGED <<env, pc, walkPos, queue, yielded, count, summary, printed,
                   pss, exitcode>>

\* test(): the reference lookup, then either the `if not refmd5` return or
\* the call of get_md5, which starts the decoder process
TaskLookup(w) ==
    /\ worker[w] # 0
    /\ futures[worker[w]].state = "lookup"
    /\ LET i == worker[w]
           refmd5 == get_ref_md5(futures[i].fn)
       IN  IF refmd5.tag = "raise"
           THEN Finish(i, w, TRUE, <<>>) /\ invoked' = invoked
           ELSE IF NoRef(refmd5)
           THEN Finish(i, w, FALSE, <<SKIPPED>>) /\ invoked' = invoked
           ELSE /\ futures' = [futures EXCEPT ![i].state = "invoke",
                                              ![i].refmd5 = refmd5.val]
                /\ worker' = worker
                /\ invoked' = Launch(invoked, futures[i].fn)
    /\ UNCHANGED <<env, pc, walkPos, queue, yielded, count, summary, printed,
                   pss, exitcode>>

\* A faulty task that adds its own outcome to the global accumulator.
TaskInvokeCounts(w) ==
    /\ worker[w] # 0
    /\ futures[worker[w]].state = "invoke"
    /\ LET i == worker[w]
           s == Classify(futures[i].refmd5, get_md5(futures[i].fn))
       IN  /\ Finish(i, w, FALSE, <<s>>)
           /\ count' = [count EXCEPT ![s] = @ + 1]
           /\ summary' = [summary EXCEPT ![s] = Append(@, futures[i].f)]
    /\ UNCHANGED <<env, invoked, pc, walkPos, queue, yielded, printed, pss, exitcode>>

\* test(): the decoder process ends or subprocess.run raises, get_md5
\* returns and the two strings are compared
TaskInvoke(w) ==
    /\ worker[w] # 0
    /\ futures[worker[w]].state = "invoke"
    /\ LET i == worker[w]
       IN  Finish(i, w, FALSE,
                  <<Classify(futures[i].refmd5, get_md5(futures[i].fn))>>)
    /\ UNCHANGED <<env, invoked, pc, walkPos, queue, yielded, count, summary, printed,
                   pss, exitcode>>

----------------------------------------------------------------------------

Next ==
    \/ Main
    \/ TestFile
    \/ Submit
    \/ SubmitReturn
    \/ \E i \in 1..Len(futures) : Collect(i)
    \/ CollectReturn
    \/ PrintSummary
    \/ Exit
    \/ \E w \in 1..args.threads : WorkerTake(w)
    \/ \E w \in 1..args.threads : TaskLookup(w)
    \/ \E w \in 1..args.threads : TaskInvoke(w)

Spec == Init /\ [][Next]_vars

----------------------------------------------------------------------------
(* Scheduling. The main thread and the pool threads are operating-system   *)
(* threads: one that can take a step is not left waiting forever. The      *)
(* steps of a pool thread that read md5.txt or wait for the decoder are    *)
(* kept apart. MainThreadRuns, LookupReturns and InvocationReturns are the *)
(* weak fairness of the main thread's steps, of TaskLookup and of          *)
(* TaskInvoke, with the enabling condition of the step written as a state  *)
(* predicate. That a decoder invocation returns is not part of the         *)
(* scheduling.                                                             *)

\* the main thread in a directory run
DirMainThread ==
    \/ Main
    \/ Submit
    \/ SubmitReturn
    \/ \E i \in 1..Len(futures) : Collect(i)
    \/ CollectReturn
    \/ PrintSummary
    \/ Exit

\* the main thread of a directory run has a step to take: it is not waiting
\* in as_completed for a future to finish, and has not exited
MainCanStep ==
    \/ pc \in {"main", "submit", "report", "exit"}
    \/ /\ pc = "collect"
       /\ \/ yielded = 1..Len(futures)
          \/ \E i \in 1..Len(futures) :
                i \notin yielded /\ futures[i].state = "finished"

MainThreadRuns ==
    \/ []<>(~MainCanStep)
    \/ []<><<MainCanStep /\ DirMainThread>>_vars

\* pool thread w is in the reference lookup of a task
InLookup(w) ==
    /\ w \in 1..args.threads
    /\ worker[w] # 0
    /\ futures[worker[w]].state = "lookup"

\* pool thread w is in subprocess.run
InInvocation(w) ==
    /\ w \in 1..args.threads
    /\ worker[w] # 0
    /\ futures[worker[w]].state = "invoke"

\* reading md5.txt ends
LookupReturns(w) ==
    \/ []<>(~InLookup(w))
    \/ []<><<InLookup(w) /\ TaskLookup(w)>>_vars

\* subprocess.run(..., timeout=5 * 60) returns or raises
InvocationReturns(w) ==
    \/ []<>(~InInvocation(w))
    \/ []<><<InInvocation(w) /\ TaskInvoke(w)>>_vars

Fairness ==
    /\ MainThreadRuns
    /\ \A w \in 1..MaxThreads :
          /\ WF_vars(w \in 1..args.threads /\ WorkerTake(w))
          /\ LookupReturns(w)

\* The runs checked for termination: the md5.txt of a directory is missing,
\* unreadable or has lines, and a decoder invocation ends with an output or
\* with the timeout's exception.
InitFair ==
    /\ Init
    /\ \A d \in Dirs :
          manifest[d] \in {NoFile, Unreadable, Lines(<<LineXc, LineA, LineK>>)}
    /\ \A p \in DOMAIN decoder :
          decoder[p] \in {Exits(0, OutA), Raises(MsgTimeout)}

SpecFair == InitFair /\ [][Next]_vars /\ Fairness

----------------------------------------------------------------------------
(* The end of a large directory run.                                       *)
(*                                                                         *)
(* A root d with n subdirectories, each holding c.bin and an md5.txt with  *)
(* one line for it, and a decoder that gives every file the same output.   *)
(* InitReport is the state test_dir is in when the as_completed loop has   *)
(* collected all n futures (here in submission order); the specification   *)
(* then runs print_summary and sys.exit. BulkStateIsTestResult states that *)
(* the results InitReport gives the futures are those of test().           *)

BulkDir(i) ==
    Root \o <<"/", LowerAlpha[(i \div Len(LowerAlpha)) + 1],
              LowerAlpha[(i % Len(LowerAlpha)) + 1]>>

\* the entries lo..hi of the walk, built by halves
RECURSIVE BulkWalkFrom(_, _)
BulkWalkFrom(lo, hi) ==
    IF lo > hi THEN <<>>
    ELSE IF lo = hi
    THEN <<[root |-> BulkDir(lo), f |-> <<"c", ".", "b", "i", "n">>]>>
    ELSE BulkWalkFrom(lo, (lo + hi) \div 2)
             \o BulkWalkFrom(((lo + hi) \div 2) + 1, hi)

BulkWalk(n) == BulkWalkFrom(1, n)

LineB == <<"b", "2", " ", " ", "c", ".", "b", "i", "n", "\n">>

\* What test() returns for each of these files: the reference is the "b2"
\* of LineB, the decoder's string is extracted from the output b.
BulkResult(b) ==
    Classify(<<"b", "2">>, Strip(RemoveAll(b.stdout, <<"M", "D", "5", "=">>)))

\* the futures of the entries lo..hi of the walk w, all finished with s
RECURSIVE BulkFuturesFrom(_, _, _, _)
BulkFuturesFrom(w, lo, hi, s) ==
    IF lo > hi THEN <<>>
    ELSE IF lo = hi
    THEN <<[fn |-> join(w[lo].root, w[lo].f), f |-> w[lo].f,
            state |-> "finished", refmd5 |-> <<"b", "2">>,
            raised |-> FALSE, result |-> <<s>>]>>
    ELSE BulkFuturesFrom(w, lo, (lo + hi) \div 2, s)
             \o BulkFuturesFrom(w, ((lo + hi) \div 2) + 1, hi, s)

\* the futures of the first n entries of the walk w, all finished with s
BulkFutures(w, n, s) == BulkFuturesFrom(w, 1, n, s)

\* the names of the futures lo..hi whose result is s, in order
RECURSIVE NamesFrom(_, _, _, _)
NamesFrom(fs, lo, hi, s) ==
    IF lo > hi THEN <<>>
    ELSE IF lo = hi
    THEN IF fs[lo].result = <<s>> THEN <<fs[lo].f>> ELSE <<>>
    ELSE NamesFrom(fs, lo, (lo + hi) \div 2, s)
             \o NamesFrom(fs, ((lo + hi) \div 2) + 1, hi, s)

\* the names of the first n futures whose result is s, in order
NamesOf(fs, n, s) == NamesFrom(fs, 1, n, s)

InitReport ==
    /\ \E n \in 0..MaxBulk : walk = BulkWalk(n)
    /\ manifest \in [{BulkDir(i) : i \in 1..Len(walk)} -> {Lines(<<LineXc, LineB>>)}]
    /\ \E b \in {Exits(0, OutA), Exits(0, OutB)} :
          /\ decoder \in [Paths(walk) -> {b}]
          /\ futures = BulkFutures(walk, Len(walk), BulkResult(b))
    /\ \E t \in 1..MaxThreads :
          args = [threads |-> t, ffmpeg_path |-> Str(FfmpegPath),
                  test_path |-> Root]
    /\ pc = "report"
    /\ walkPos = Len(walk) + 1
    /\ queue = <<>>
    /\ worker = [w \in 1..args.threads |-> 0]
    /\ yielded = 1..Len(walk)
    /\ count = [s \in Outcomes |->
                  Cardinality({i \in 1..Len(futures) : futures[i].result = <<s>>})]
    /\ summary = [s \in Outcomes |-> NamesOf(futures, Len(futures), s)]
    /\ printed = <<>>
    /\ pss = <<>>
    /\ invoked \in [1..Len(walk) -> {1}]
    /\ exitcode = <<>>

BulkStateIsTestResult ==
    \A i \in 1..Len(futures) :
        /\ futures[i].fn = join(walk[i].root, walk[i].f)
        /\ test(futures[i].fn) = Ret(futures[i].result[1])
        /\ Launches(futures[i].fn)
        /\ invoked[i] = 1

NextReport ==
    \/ PrintSummary
    \/ Exit

SpecReport == InitReport /\ [][NextReport]_vars

----------------------------------------------------------------------------
(* Runs over one directory whose file names, manifest lines and decoder    *)
(* path vary: upper-case and mixed-case extensions, a name without an      *)
(* extension, a name that is only an extension, names with spaces, and a   *)
(* decoder path with a space. The program is the same: only the            *)
(* environment chosen at start differs.                                    *)

MaxNames == 2

Names ==
    << <<"c", ".", "b", "i", "n">>,
       <<"K", ".", "V", "V", "C">>,
       <<"n", ".", "t", "x", "t">>,
       <<"a", " ", "b", ".", "b", "i", "n">>,
       <<".", "b", "i", "n">>,
       <<"x", " ", " ", "c", ".", "b", "i", "n">>,
       <<"e", ".", "2", "6", "6">>,
       <<"g", ".", "B", "i", "t">>,
       <<"b", "i", "n">> >>

\* the files of the root whose index in Names is in S and at most k, in order
RECURSIVE NameWalk(_, _)
NameWalk(S, k) ==
    IF k = 0 THEN <<>>
    ELSE IF k \in S
         THEN Append(NameWalk(S, k - 1), [root |-> Root, f |-> Names[k]])
         ELSE NameWalk(S, k - 1)

LineX2c == <<"b", "2", " ", " ", "x", " ", " ", "c", ".", "b", "i", "n", "\n">>
LineN == <<"a", "1", " ", " ", "n", ".", "t", "x", "t", "\n">>
LineAB == <<"a", "1", " ", " ", "a", " ", "b", ".", "b", "i", "n", "\n">>

NameManifests ==
    { Lines(<<LineXc, LineA, LineK>>),
      Lines(<<LineX2c, LineA, LineN, LineAB, LineK>>) }

FfmpegPathWithSpace == <<"f", " ", "f">>

InitNames ==
    /\ \E S \in SUBSET (1..Len(Names)) :
          /\ Cardinality(S) <= MaxNames
          /\ walk = NameWalk(S, Len(Names))
    /\ manifest \in [{Root} -> NameManifests]
    /\ \E fp \in {FfmpegPath, FfmpegPathWithSpace},
          tp \in {Root} \cup Paths(walk) :
            args = [threads |-> 1, ffmpeg_path |-> Str(fp), test_path |-> tp]
    /\ \E D \in SUBSET Paths(walk) :
          /\ D = IF args.test_path = Root
                 THEN {p \in Paths(walk) : is_candidiate(p)}
                 ELSE {args.test_path}
          /\ decoder \in [D -> {Exits(0, OutA)}]
    /\ InitProgram

SpecNames == InitNames /\ [][Next]_vars

----------------------------------------------------------------------------
(* Properties.                                                             *)

PathAt(k) == join(walk[k].root, walk[k].f)

DirMode == args.ffmpeg_path # None /\ ~isfile(args.test_path)
FileMode == args.ffmpeg_path # None /\ isfile(args.test_path)

Submitted == 1..Len(futures)
Finished == {i \in Submitted : futures[i].state = "finished"}
RaisedTasks == {i \in Submitted : futures[i].raised}
Returned(s) == {i \in Submitted : futures[i].result = <<s>>}
Running == {i \in Submitted : futures[i].state \in {"lookup", "invoke"}}
Candidates == {k \in 1..Len(walk) : is_candidiate(PathAt(k))}

\* The directory of fn has no md5.txt, or none of its lines ends with
\* "  <basename>\n".
NoManifestEntry(fn) ==
    LET m == manifest[dirname(fn)]
    IN  \/ m.tag = "missing"
        \/ /\ m.tag = "lines"
           /\ \A k \in 1..Len(m.lines) :
                 ~EndsWith(m.lines[k], <<" ", " ">> \o basename(fn) \o <<"\n">>)

\* A reference is present for fn.
RefPresent(fn) == get_ref_md5(fn).tag = "str" /\ get_ref_md5(fn).val # <<>>

\* The decoder ran to a zero status on fn, and the checksum in its output.
InvocationSucceeds(fn) == decoder[fn].kind = "exit" /\ decoder[fn].rc = 0
Extracted(fn) == Strip(RemoveAll(decoder[fn].stdout, <<"M", "D", "5", "=">>))

\* C1 (as stated): once the report is printed, the three counts add up to the
\* number of candidates submitted to the pool.
C1_SumEqualsSubmitted ==
    printed # <<>> => Sum(count) = Len(futures)

\* C1 (amended): once the report is printed, every candidate of the walk was
\* submitted, every task that returned is counted exactly once under its
\* outcome and no task that raised is counted, so the counts add up to the
\* number submitted minus the number of tasks that raised.
C1_SumEqualsSubmittedThatReturned ==
    printed # <<>> =>
        /\ Len(futures) = Cardinality(Candidates)
        /\ \A s \in Outcomes : count[s] = Cardinality(Returned(s))
        /\ Sum(count) = Len(futures) - Cardinality(RaisedTasks)
        /\ printed[1] = Sum(count)

C1_Witness ==
    printed # <<>> /\ RaisedTasks # {} /\ Sum(count) > 0

C3_ExitCodeIsFailedCount ==
    (pc = "exited" /\ printed # <<>>) =>
        /\ exitcode = <<count[FAILED]>>
        /\ (exitcode = <<0>>) <=> (count[FAILED] = 0)

\* C4: a file without a manifest, or without a matching line in it, gets
\* SKIPPED from test(), and collecting it adds exactly 1 to count[SKIPPED]
\* and changes no other count.
C4_Returned ==
    /\ \A i \in Finished :
          NoManifestEntry(futures[i].fn) =>
              (~futures[i].raised /\ futures[i].result = <<SKIPPED>>)
    /\ (FileMode /\ pc = "exited" /\ NoManifestEntry(args.test_path)) =>
          pss = <<SKIPPED>>

C4_Collected ==
    \A i \in Submitted :
        (i \notin yielded /\ i \in yielded' /\ NoManifestEntry(futures[i].fn))
        => count' = [count EXCEPT ![SKIPPED] = @ + 1]

\* C4: the returned value in every state, the collection in every step
C4_NoEntryIsSkippedOnce == []C4_Returned /\ [][C4_Collected]_vars

C4_Witness ==
    \E i \in yielded :
        /\ manifest[dirname(futures[i].fn)].tag = "lines"
        /\ NoManifestEntry(futures[i].fn)
        /\ count[SKIPPED] >= 1

C6_PoolBound ==
    /\ Cardinality(Running) <= args.threads
    /\ \A i \in Running :
          Cardinality({w \in 1..args.threads : worker[w] = i}) = 1
    /\ \A w \in 1..args.threads : worker[w] # 0 => worker[w] \in Running

C6_RunToCompletion ==
    /\ \A w \in 1..args.threads :
          (worker[w] # 0 /\ worker'[w] # worker[w]) =>
              (worker'[w] = 0 /\ futures'[worker[w]].state = "finished")
    /\ \A i \in Finished : futures'[i].state = "finished"

\* C6: the bound in every state, run-to-completion in every step
C6_BoundedPool == []C6_PoolBound /\ [][C6_RunToCompletion]_vars

C6_Witness ==
    Cardinality(Running) = args.threads /\ queue # <<>>

\* C7: count and summary change only in a turn of the collection loop of the
\* main thread, for a future that has finished, and that turn adds exactly
\* one; no step of a pool thread changes them, and the counts always add up
\* to the number of returned tasks collected so far.
C7_OnlyCollectWrites ==
    (count' # count \/ summary' # summary) =>
        /\ pc = "collect" /\ pc' = "collect"
        /\ futures' = futures /\ worker' = worker /\ queue' = queue
        /\ \E i \in Finished :
              /\ i \notin yielded
              /\ yielded' = yielded \cup {i}
              /\ ~futures[i].raised
              /\ count' = [count EXCEPT ![futures[i].result[1]] = @ + 1]
              /\ summary' = [summary EXCEPT ![futures[i].result[1]] =
                                               Append(@, futures[i].f)]

C7_NoneLost ==
    /\ yielded \subseteq Finished
    /\ Sum(count) = Cardinality(yielded \ RaisedTasks)

\* C7: nothing is lost in any state, only the collection loop writes in any step
C7_AccumulatorOwnedByMain == []C7_NoneLost /\ [][C7_OnlyCollectWrites]_vars

C7_Witness ==
    Sum(count) > 0 /\ \E w \in 1..args.threads : worker[w] # 0

\* Some step of the main thread or of a pool thread is possible: the main
\* thread is not in the collection loop, or the loop has a finished future to
\* take or none left to wait for, or a pool thread is running a task or can
\* take one from the queue.
CanStep ==
    \/ pc \in {"main", "test_file", "submit", "report", "exit"}
    \/ /\ pc = "collect"
       /\ \/ yielded = Submitted
          \/ Finished \ yielded # {}
    \/ \E w \in 1..args.threads :
          \/ worker[w] # 0 /\ futures[worker[w]].state \in {"lookup", "invoke"}
          \/ worker[w] = 0 /\ queue # <<>>

\* C8: a task that raised is in no count and no list, every other task is
\* run, collected and counted, and the directory run always goes on to the
\* report and the exit.
C8_RaisedTaskIsDropped ==
    /\ \A s \in Outcomes :
          /\ count[s] = Cardinality({i \in yielded : futures[i].result = <<s>>})
          /\ Len(summary[s]) = count[s]
    /\ \A i \in RaisedTasks : futures[i].result = <<>>
    /\ (DirMode /\ pc = "exited") =>
          /\ printed # <<>>
          /\ exitcode # <<>>
          /\ Finished = Submitted
          /\ yielded = Submitted
    /\ (DirMode /\ pc # "exited") => CanStep

C8_Witness ==
    /\ DirMode /\ pc = "exited"
    /\ RaisedTasks # {}
    /\ Sum(count) > 0

\* C9: the final counts, the printed totals and the exit status of a directory
\* run are those given by the files, the manifests and the decoder alone,
\* whatever the completion order and the number of pool threads.
Expected(s) ==
    Cardinality({k \in Candidates : test(PathAt(k)) = Ret(s)})

C9_CountsAreDeterministic ==
    (DirMode /\ pc = "exited") =>
        /\ \A s \in Outcomes : count[s] = Expected(s)
        /\ printed = <<Expected(PASSED) + Expected(FAILED) + Expected(SKIPPED),
                       Expected(PASSED), Expected(FAILED), Expected(SKIPPED)>>
        /\ exitcode = <<Expected(FAILED) % ExitRange>>

C9_Witness ==
    /\ DirMode /\ pc = "exited"
    /\ args.threads >= 2
    /\ count[FAILED] >= 2

\* C10: in single-file mode the exit status is 0 for every outcome of the
\* file, and count and summary are left as they were.
C10_FileModeExitsZero ==
    (pc = "exited" /\ pss # <<>>) =>
        /\ exitcode = <<0>>
        /\ count = [s \in Outcomes |-> 0]
        /\ summary = [s \in Outcomes |-> <<>>]
        /\ printed = <<>>

C10_Witness ==
    pc = "exited" /\ pss = <<FAILED>>


\* Nothing of the work has happened: no entry of the walk was visited, no
\* task was submitted or run, no decoder was started, nothing was counted,
\* printed or returned by test().
NoWorkDone ==
    /\ walkPos = 1
    /\ futures = <<>> /\ queue = <<>> /\ yielded = {}
    /\ \A w \in 1..args.threads : worker[w] = 0
    /\ \A k \in 1..Len(walk) : invoked[k] = 0
    /\ \A s \in Outcomes : count[s] = 0 /\ summary[s] = <<>>
    /\ printed = <<>> /\ pss = <<>>

\* C11: without a decoder path the process exits with status 1 and does
\* nothing else: no file is walked, looked up, submitted or decoded before the
\* exit, the only step it ever takes is that exit, and no step follows it.
C11_OnlyTheExit ==
    args.ffmpeg_path = None =>
        /\ NoWorkDone
        /\ \/ pc = "main" /\ exitcode = <<>>
           \/ pc = "exited" /\ exitcode = <<1>>

C11_StepIsTheExit ==
    args.ffmpeg_path = None =>
        (pc = "main" /\ pc' = "exited" /\ exitcode' = <<1>>)

\* C11: nothing but the exit in every state, no other step than the exit
C11_ConfigErrorExitsFirst == []C11_OnlyTheExit /\ [][C11_StepIsTheExit]_vars

C11_Witness ==
    /\ args.ffmpeg_path = None
    /\ pc = "exited" /\ exitcode = <<1>>
    /\ Candidates # {}


\* The name of f ends, in any mix of cases, with one of the four extensions,
\* and there is more before the extension than dots.
AllowedExt(f) ==
    LET name == basename(f)
    IN  \E e \in supported :
            /\ Len(name) > Len(e)
            /\ Lower(SubSeq(name, Len(name) - Len(e) + 1, Len(name))) = e
            /\ \E k \in 1..(Len(name) - Len(e)) : name[k] # "."

\* the entries of the walk visited so far that have an allowed extension
ScannedCandidates ==
    SelectSeq(SubSeq(walk, 1, walkPos - 1),
              LAMBDA e : AllowedExt(join(e.root, e.f)))

\* C12: in a directory run the futures are, in order, exactly the visited
\* files whose extension is .bin, .bit, .vvc or .266 in any case; a file with
\* another extension or none is never submitted, never given to the decoder,
\* never counted and in no summary list.
C12_DispatchedIffCandidate ==
    DirMode =>
        /\ Len(futures) = Len(ScannedCandidates)
        /\ \A i \in 1..Len(futures) :
              /\ futures[i].fn = join(ScannedCandidates[i].root,
                                      ScannedCandidates[i].f)
              /\ futures[i].f = ScannedCandidates[i].f
        /\ \A k \in 1..Len(walk) : ~AllowedExt(PathAt(k)) => invoked[k] = 0
        /\ \A s \in Outcomes :
              \A j \in 1..Len(summary[s]) : AllowedExt(summary[s][j])
        /\ Sum(count) <= Len(ScannedCandidates)

C12_Witness ==
    /\ DirMode /\ pc = "exited"
    /\ \E s \in Outcomes :
          \E j \in 1..Len(summary[s]) : summary[s][j] = <<"K", ".", "V", "V", "C">>
    /\ \E k \in 1..Len(walk) : ~AllowedExt(PathAt(k))
    /\ Sum(count) = 1


\* The line ends with two spaces, the name and a newline.
Matches(l, name) == EndsWith(l, <<" ", " ">> \o name \o <<"\n">>)

\* The line has the manifest's format "<checksum>  <filename>\n" for a
\* filename other than name that ends with name.
WrittenForLongerName(l, name) ==
    /\ Split(l) # <<>>
    /\ LET sum == Split(l)[1]
           other == SubSeq(l, Len(sum) + 3, Len(l) - 1)
       IN  /\ l = sum \o <<" ", " ">> \o other \o <<"\n">>
           /\ other # name
           /\ EndsWith(other, name)

\* What the claim says of a lookup of fn that gave ref (None or a string) in
\* a directory whose md5.txt could be read.
LookupAsClaimed(fn, ref) ==
    LET ls == manifest[dirname(fn)].lines
        name == basename(fn)
        hits == {k \in 1..Len(ls) : Matches(ls[k], name)}
    IN  /\ hits = {} => ref = None
        /\ hits # {} => ref = Str(Split(ls[SetMin(hits)])[1])
        /\ \A k \in 1..Len(ls) : WrittenForLongerName(ls[k], name) => k \notin hits

\* the futures whose task has done its reference lookup and returned from it
LookedUp ==
    {i \in Submitted : futures[i].state \in {"invoke", "finished"}
                         /\ ~futures[i].raised}

\* C13: a lookup gives the first token of the first line that ends with two
\* spaces, the basename and a newline, gives nothing when no line does, and
\* no line written for a longer filename that ends with the basename matches.
C13_FirstMatchingToken ==
    /\ \A i \in LookedUp :
          manifest[dirname(futures[i].fn)].tag = "lines" =>
              LookupAsClaimed(futures[i].fn,
                              IF futures[i].refmd5 = <<>> THEN None
                              ELSE Str(futures[i].refmd5))
    /\ (FileMode /\ pc = "exited" /\ pss # <<>>
          /\ manifest[dirname(args.test_path)].tag = "lines") =>
              LookupAsClaimed(args.test_path, get_ref_md5(args.test_path))


\* the futures submitted for the k-th entry of the walk
FuturesOf(k) == {i \in Submitted : futures[i].fn = PathAt(k)}

\* C14: the decoder is started at most once for a file, only by the step that
\* ends the reference lookup of its task and only when that lookup gave a
\* reference; a task that is Skipped, or that has not finished its lookup,
\* has no decoder started.
C14_LaunchedAfterLookup ==
    \A k \in 1..Len(walk) :
        /\ invoked[k] <= 1
        /\ Cardinality(FuturesOf(k)) <= 1
        /\ invoked[k] = 1 =>
              \/ \E i \in FuturesOf(k) :
                    /\ futures[i].state \in {"invoke", "finished"}
                    /\ futures[i].refmd5 # <<>>
              \/ FileMode /\ pc = "exited" /\ args.test_path = PathAt(k)
        /\ \A i \in FuturesOf(k) :
              (futures[i].result = <<SKIPPED>> \/ futures[i].raised
                 \/ futures[i].state \in {"queued", "lookup"}) => invoked[k] = 0
        /\ (args.test_path = PathAt(k) /\ pss = <<SKIPPED>>) => invoked[k] = 0

C14_LaunchStep ==
    \A k \in 1..Len(walk) :
        invoked'[k] # invoked[k] =>
            LET ref == get_ref_md5(PathAt(k))
            IN  /\ invoked[k] = 0 /\ invoked'[k] = 1
                /\ ref.tag = "str" /\ ref.val # <<>>
                /\ \/ \E i \in FuturesOf(k) :
                         /\ futures[i].state = "lookup"
                         /\ futures'[i].state = "invoke"
                         /\ futures'[i].refmd5 = ref.val
                   \/ pc = "test_file" /\ args.test_path = PathAt(k)

\* C14: at most one launch in every state, launched by the lookup's last step
C14_LookupThenAtMostOneLaunch ==
    []C14_LaunchedAfterLookup /\ [][C14_LaunchStep]_vars

C14_Witness ==
    /\ DirMode /\ pc = "exited"
    /\ \E i \in Finished, j \in Finished :
          /\ futures[i].result = <<SKIPPED>>
          /\ invoked[WalkIndex(futures[i].fn)] = 0
          /\ futures[j].result = <<FAILED>>
          /\ invoked[WalkIndex(futures[j].fn)] = 1


\* The directory run is over: every candidate was submitted, run and
\* collected, the report is printed and the process has exited.
DirDone ==
    /\ pc = "exited" /\ exitcode # <<>> /\ printed # <<>>
    /\ Len(futures) = Cardinality(Candidates)
    /\ Finished = Submitted
    /\ yielded = Submitted

\* Every candidate was submitted, and every task but the one pool thread 1
\* is running has been run to its end and collected.
OthersDone ==
    /\ walkPos > Len(walk)
    /\ \A i \in Submitted : worker[1] = i \/ i \in yielded

\* C15: if every decoder invocation returns, a directory run ends with every
\* task collected, the report printed and the process exited; and with two or
\* more pool threads, if only the invocations of the other threads return,
\* every task but the one thread 1 is blocked in is still started, completed
\* and collected.
C15_Terminates ==
    /\ (\A w \in 1..MaxThreads : InvocationReturns(w)) => (DirMode ~> DirDone)
    /\ (\A w \in 2..MaxThreads : InvocationReturns(w)) =>
          ((DirMode /\ args.threads >= 2) ~> OthersDone)

C15_Witness ==
    /\ DirMode /\ args.threads >= 2
    /\ worker[1] # 0 /\ futures[worker[1]].state = "invoke"
    /\ \E i \in yielded : i > worker[1]


\* the eight arguments the claim gives the decoder process
ClaimedArgv(exe, path) ==
    << exe, <<"-", "i">>, path, <<"-", "v", "s", "y", "n", "c">>, <<"0">>,
       <<"-", "f">>, <<"m", "d", "5">>, <<"-">> >>

\* C16: every decoder process that was started got exactly the eight
\* arguments decoder, -i, path, -vsync, 0, -f, md5, -, with the path as one
\* argument, whatever characters the path and the decoder's path contain.
C16_ArgvIsEightArguments ==
    \A k \in 1..Len(walk) :
        invoked[k] > 0 =>
            Argv(args.ffmpeg_path.val, PathAt(k))
                = ClaimedArgv(args.ffmpeg_path.val, PathAt(k))


\* C17: in single-file mode a file whose extension is not in the list is not
\* given to test() and no decoder is started for it; a candidate is given to
\* test() once.
C17_FileModeClassifies ==
    FileMode =>
        /\ ~is_candidiate(args.test_path) =>
              /\ pss = <<>>
              /\ invoked[WalkIndex(args.test_path)] = 0
        /\ (is_candidiate(args.test_path) /\ pc = "exited") =>
              /\ pss # <<>> \/ exitcode = <<1>>
              /\ invoked[WalkIndex(args.test_path)] <= 1


\* print_summary has been called or is the next call of the main thread
Reporting == pc \in {"report", "exit"} \/ printed # <<>>

\* C18: print_summary starts only when every candidate was submitted, every
\* task has finished and was collected and the pool is idle; what it prints
\* are the final counts; and from then on no step changes count, summary or
\* what was printed.
C18_AllCollectedBefore ==
    Reporting =>
        /\ walkPos > Len(walk)
        /\ Finished = Submitted
        /\ yielded = Submitted
        /\ queue = <<>>
        /\ \A w \in 1..args.threads : worker[w] = 0
        /\ printed # <<>> =>
              printed = <<Sum(count), count[PASSED], count[FAILED],
                          count[SKIPPED]>>

C18_NoLateWrite ==
    Reporting =>
        /\ count' = count
        /\ summary' = summary
        /\ printed # <<>> => printed' = printed

\* C18: all collected before the report in every state, no write after it
C18_ReportAfterAllCollected ==
    []C18_AllCollectedBefore /\ [][C18_NoLateWrite]_vars

C18_Witness ==
    /\ printed # <<>>
    /\ args.threads >= 2
    /\ Len(futures) >= 2
    /\ count[PASSED] >= 1 /\ count[SKIPPED] >= 1


\* how many times the name f is in the list q
Occurrences(q, f) == Cardinality({j \in 1..Len(q) : q[j] = f})

\* C19: for every outcome the list is as long as the count and holds each
\* name as many times as collected futures of that name returned the
\* outcome; a step changes the count of an outcome exactly when it changes
\* its list, by one, for one outcome and one newly collected future.
C19_ListsMatchCounts ==
    /\ \A s \in Outcomes :
          /\ Len(summary[s]) = count[s]
          /\ \A i \in Submitted :
                Occurrences(summary[s], futures[i].f)
                    = Cardinality({j \in yielded :
                                      /\ futures[j].f = futures[i].f
                                      /\ futures[j].result = <<s>>})
    /\ \A i \in yielded :
          Cardinality({s \in Outcomes : futures[i].result = <<s>>})
              = IF futures[i].raised THEN 0 ELSE 1

C19_UpdatedTogether ==
    /\ \A s \in Outcomes :
          /\ (count'[s] # count[s]) <=> (summary'[s] # summary[s])
          /\ count'[s] \in {count[s], count[s] + 1}
    /\ Sum(count') <= Sum(count) + 1
    /\ yielded \subseteq yielded'
    /\ Sum(count') = Sum(count) + 1 =>
          Cardinality(yielded') = Cardinality(yielded) + 1

\* C19: lists and counts agree in every state and change together in every step
C19_CountAndSummaryAgree ==
    []C19_ListsMatchCounts /\ [][C19_UpdatedTogether]_vars

C19_Witness ==
    /\ DirMode /\ pc = "collect"
    /\ \E i \in yielded, j \in yielded :
          /\ i # j
          /\ futures[i].f = futures[j].f
          /\ futures[i].result = <<PASSED>>
          /\ futures[j].result = <<SKIPPED>>


\* the decoder process started on fn ended with a non-zero status
ExitedNonZero(fn) ==
    /\ fn \in DOMAIN decoder
    /\ decoder[fn].kind = "exit"
    /\ decoder[fn].rc # 0

\* C20: a lookup never returns the empty string, whatever the manifest holds,
\* and a task whose decoder process exits with a non-zero status is never
\* Passed: it is Failed when a reference was found.
C20_LookupStep ==
    \A i \in Submitted :
        (futures[i].state = "lookup" /\ futures'[i].state # "lookup") =>
            LET r == get_ref_md5(futures[i].fn)
            IN  /\ r.tag = "str" => r.val # <<>>
                /\ r.tag = "str" <=> futures'[i].state = "invoke"
                /\ r.tag = "str" => futures'[i].refmd5 = r.val

C20_NeverPassed ==
    /\ \A i \in Finished :
          ExitedNonZero(futures[i].fn) =>
              /\ futures[i].result # <<PASSED>>
              /\ invoked[WalkIndex(futures[i].fn)] = 1 =>
                    futures[i].result = <<FAILED>>
    /\ (FileMode /\ ExitedNonZero(args.test_path)) => pss # <<PASSED>>

\* C20: never Passed in every state, a non-empty reference in every lookup step
C20_NonZeroExitIsNeverPassed ==
    []C20_NeverPassed /\ [][C20_LookupStep]_vars

C20_Witness ==
    \E i \in Finished :
        /\ ExitedNonZero(futures[i].fn)
        /\ invoked[WalkIndex(futures[i].fn)] = 1
        /\ futures[i].refmd5
              = Strip(RemoveAll(decoder[futures[i].fn].stdout,
                                <<"M", "D", "5", "=">>))
        /\ futures[i].result = <<FAILED>>

====
